---------------------------- MODULE Spec2Model ----------------------------
(***************************************************************************)
(* Model of the surgical planning application (src/app1.py): the intraday  *)
(* sequencer appliquer_ordonnancement_horaire (lines 16-134) and the        *)
(* allocation model of the Optimisation page (lines 537-646).               *)
(*                                                                         *)
(* A call is modelled as a state machine.  Init draws the arguments        *)
(* (planning_brut, heure_debut, heure_fin, pause, regle_ordre) from small  *)
(* sets; the actions follow the function's body:                           *)
(*    Preparer   lines 38-63   parse the window, split and group           *)
(*    Trier      lines 66-98   sort one (salle, jour) group, reset cursor  *)
(*    Placer     lines 104-120 the patient fits: give it a slot            *)
(*    HorsCreneau lines 121-126 the patient does not fit: flag it          *)
(*    Terminer   lines 128-134 append the unallocated records and return   *)
(*                                                                         *)
(* Python strings that the code takes apart or builds ("HH:MM", "N/A",     *)
(* patient identifiers compared by sorted()) are sequences of one-char     *)
(* strings; a Python dict is a function from its keys to its values.       *)
(*                                                                         *)
(* The Optimisation page is a second state machine (SpecOptim) over the    *)
(* session state: InitOptim draws a registry, and the actions follow the   *)
(* button handler:                                                         *)
(*    Resoudre        lines 537-600 build the MILP, solve it               *)
(*    DecoderPlace    lines 607-631 one patient the solution places        *)
(*    DecoderNonPlace lines 633-646 one patient the solution leaves out    *)
(*                                                                         *)
(* Further specifications over the same variables: SpecPage, the whole     *)
(* press of the button (solve, decode, sequencer call, storage); SpecRuns, *)
(* presses one after the other with a solve that may end without values;   *)
(* SpecRegistre, the forms of the registry pages; SpecHeure, the           *)
(* formatting and parsing of times.                                        *)
(***************************************************************************)
EXTENDS Integers, Sequences, FiniteSets, TLC

VARIABLES
    planning_brut,           \* argument: list of allocation records
    heure_debut,             \* argument: "HH:MM"
    heure_fin,               \* argument: "HH:MM"
    pause,                   \* argument: minutes between interventions
    regle_ordre,             \* argument: name of the dispatching rule
    h_debut,                 \* local: window start, minutes since midnight
    h_fin,                   \* local: window end, minutes since midnight
    capacite,                \* local: h_fin - h_debut
    planning_final,          \* local, then the returned list
    patients_non_planifies,  \* local: records whose statut is not 'Planifié'
    groupes,                 \* local: dict (salle_id, jour_numero) -> list,
                             \*   in insertion order, as a sequence of entries
    g,                       \* position of the group loop (line 66)
    patients_tries,          \* local: the current group, sorted
    idx,                     \* position of the patient loop (line 100)
    heure_courante,          \* local: the cursor of the current group
    pc,                      \* position in the function or in the handler
    st_patients,             \* st.session_state.patients
    st_salles,               \* st.session_state.salles
    st_chirurgiens,          \* st.session_state.chirurgiens
    st_jours,                \* st.session_state.jours
    st_compatibilite,        \* st.session_state.compatibilite
    st_planning_final,       \* st.session_state.planning_final
    st_parametres_ordo,      \* st.session_state.parametres_ordo
    sol_statut,              \* pulp.LpStatus[prob.status]
    sol_x,                   \* pulp.value(x[i][j][k]) after the solve
    sol_y,                   \* pulp.value(y[i][j][s][k]) after the solve
    planning_details,        \* local of the handler: the decoded records
    pos_i                    \* position of the decoding loop (line 607)

\* None (line 160) and {} (line 162) are the empty sequence <<>>: a stored
\* report is never empty, the registry of a run is not (line 484).

vars == <<planning_brut, heure_debut, heure_fin, pause, regle_ordre,
          h_debut, h_fin, capacite, planning_final, patients_non_planifies,
          groupes, g, patients_tries, idx, heure_courante, pc,
          st_patients, st_salles, st_chirurgiens, st_jours, st_compatibilite,
          st_planning_final, st_parametres_ordo,
          sol_statut, sol_x, sol_y, planning_details, pos_i>>

\* the session state the Optimisation page reads
session == <<st_patients, st_salles, st_chirurgiens, st_jours,
            st_compatibilite, st_planning_final, st_parametres_ordo>>

\* the state of one run of the Optimisation page
optimisation == <<sol_statut, sol_x, sol_y, planning_details, pos_i>>

args == <<planning_brut, heure_debut, heure_fin, pause, regle_ordre>>

---------------------------------------------------------------------------
(* Bounds of the model *)

\* longest planning_brut list drawn by Init
MaxPatients == 3

---------------------------------------------------------------------------
(* Strings and dicts *)

\* the status strings of the records
Planifie == "Planifié"

NonPlanifie == "Non planifié"

HorsCreneauStatut == "Non planifié (hors créneau)"

\* 'N/A'
NA == <<"N", "/", "A">>

\* the empty jour_numero ('') of an unallocated record; day numbers start at 1
SansJour == 0

\* dict.get(key, default)
Get(d, k, defaut) == IF k \in DOMAIN d THEN d[k] ELSE defaut

\* d[k] = v on a dict
Put(d, k, v) == [x \in (DOMAIN d) \cup {k} |-> IF x = k THEN v ELSE d[x]]

Chiffres == <<"0", "1", "2", "3", "4", "5", "6", "7", "8", "9">>

ValeurChiffre(c) == (CHOOSE i \in 1..10 : Chiffres[i] = c) - 1

\* int(s) on a string of decimal digits
RECURSIVE IntDe(_)
IntDe(s) ==
    IF s = <<>> THEN 0
    ELSE IntDe(SubSeq(s, 1, Len(s) - 1)) * 10 + ValeurChiffre(s[Len(s)])

\* s.split(':')
RECURSIVE Split(_)
Split(s) ==
    IF \A i \in 1..Len(s) : s[i] # ":" THEN <<s>>
    ELSE LET i == CHOOSE k \in 1..Len(s) :
                      s[k] = ":" /\ \A j \in 1..(k - 1) : s[j] # ":"
         IN  <<SubSeq(s, 1, i - 1)>> \o Split(SubSeq(s, i + 1, Len(s)))

\* int(h.split(':')[0])*60 + int(h.split(':')[1])
EnMinutes(h) == IntDe(Split(h)[1]) * 60 + IntDe(Split(h)[2])

\* str(n) for n >= 0
RECURSIVE Decimal(_)
Decimal(n) ==
    IF n < 10 THEN <<Chiffres[n + 1]>>
    ELSE Decimal(n \div 10) \o <<Chiffres[(n % 10) + 1]>>

\* fault: the width of the format is forgotten, f"{n}"
Pad2_SansZero(n) == IF n < 0 THEN <<"-">> \o Decimal(-n) ELSE Decimal(n)

\* f"{n:02d}": sign, then the digits padded with zeros to a width of 2
Pad2(n) ==
    IF n < 0 THEN <<"-">> \o Decimal(-n)
    ELSE IF n < 10 THEN <<"0">> \o Decimal(n)
    ELSE Decimal(n)

\* f"{m//60:02d}:{m%60:02d}"
Formater(m) == Pad2(m \div 60) \o <<":">> \o Pad2(m % 60)

---------------------------------------------------------------------------
(* The inputs drawn by Init *)

\* the patients a record may be about: id |-> (patient_duree, priorite).
\* A, B and C are the patients of the rule-correctness scenario; D has the
\* duration of B and the priority of A.
Catalogue ==
    [A |-> [duree |-> 180, priorite |-> 2],
     B |-> [duree |-> 60,  priorite |-> 1],
     C |-> [duree |-> 120, priorite |-> 3],
     D |-> [duree |-> 60,  priorite |-> 2]]

\* the characters of each identifier, for the comparison of identifiers
Caracteres == [A |-> <<"A">>, B |-> <<"B">>, C |-> <<"C">>, D |-> <<"D">>]

\* ord(c) of the characters of the identifiers
Ord == [c \in {"A", "B", "C", "D"} |->
          CASE c = "A" -> 65 [] c = "B" -> 66 [] c = "C" -> 67 [] c = "D" -> 68]

\* where the allocator put a record: (salle_id, jour_numero, statut,
\* chirurgiens)
Affectations ==
    {<<"S1", 1, Planifie, "CH1">>, <<"S2", 1, Planifie, "CH2">>,
     <<"", SansJour, NonPlanifie, "">>}

\* one record of planning_details (lines 620-646)
Enregistrement(id, aff) ==
    [patient_id    |-> id,
     patient_duree |-> Catalogue[id].duree,
     priorite      |-> Catalogue[id].priorite,
     salle_id      |-> aff[1],
     jour_numero   |-> aff[2],
     chirurgiens   |-> aff[4],
     statut        |-> aff[3]]

Entrees == {Enregistrement(id, aff) : id \in DOMAIN Catalogue, aff \in Affectations}

\* the lists planning_brut: at most MaxPatients records, one per patient
ListesBrutes ==
    {l \in UNION {[1..n -> Entrees] : n \in 0..MaxPatients} :
        \A i, j \in DOMAIN l : l[i].patient_id = l[j].patient_id => i = j}

HeuresDebut == {<<"0", "8", ":", "0", "0">>}

HeuresFin == {<<"0", "8", ":", "0", "0">>, <<"0", "9", ":", "0", "0">>,
              <<"1", "2", ":", "0", "0">>, <<"1", "8", ":", "0", "0">>}

\* the interface offers 0..60 (line 514); a direct call may pass any integer
Pauses == {-75, 0, 15}

ReglesConnues == {"duree_desc", "priorite", "fifo", "mixte"}

Regles == ReglesConnues \cup {"inconnue"}


---------------------------------------------------------------------------
(* Sorting: sorted(list, key=..., reverse=...) *)

\* sorted() is stable: the elements come out by increasing key, and elements
\* of equal key in the order of the list.  inf[i, j] is "the key of l[i]
\* sorts strictly before the key of l[j]"; with reverse=True it is the
\* reversed comparison, and equal keys still keep the order of the list.
TriStable(l, inf) ==
    LET rang(i) == 1 + Cardinality({j \in 1..Len(l) :
                        \/ inf[j, i]
                        \/ (~inf[i, j] /\ j < i)})
    IN  [k \in 1..Len(l) |-> l[CHOOSE i \in 1..Len(l) : rang(i) = k]]

\* the characters of an identifier ('' when unknown)
CaracteresDe(id) == IF id \in DOMAIN Caracteres THEN Caracteres[id] ELSE <<>>

\* a < b on Python strings: the first differing character decides, and a
\* proper prefix is smaller
InfLexical(a, b) ==
    \E k \in 1..(Len(b)) :
        /\ \A j \in 1..(k - 1) : j <= Len(a) /\ a[j] = b[j]
        /\ \/ k = Len(a) + 1
           \/ (k <= Len(a) /\ Ord[a[k]] < Ord[b[k]])

\* line 72, 94: the key lambda x: x.get('patient_duree', 0)
CleDuree(x) == Get(x, "patient_duree", 0)

\* line 78: the key lambda x: x.get('priorite', 999)
ClePriorite(x) == Get(x, "priorite", 999)

\* line 83: the key lambda x: x.get('patient_id', '')
CleId(x) == CaracteresDe(Get(x, "patient_id", ""))

\* fault: sorted(...)[::-1] instead of reverse=True, which also reverses the
\* patients of equal duration
TriDureeDesc_Renverse(patients) ==
    LET croissant == TriStable(patients,
            [i, j \in 1..Len(patients) |-> CleDuree(patients[i]) < CleDuree(patients[j])])
    IN  [k \in 1..Len(croissant) |-> croissant[Len(croissant) + 1 - k]]

\* line 71-73: key = patient_duree, reverse=True
TriDureeDesc(patients) ==
    TriStable(patients,
        [i, j \in 1..Len(patients) |-> CleDuree(patients[i]) > CleDuree(patients[j])])

\* fault: the highest rank first
TriPriorite_Desc(patients) ==
    TriStable(patients,
        [i, j \in 1..Len(patients) |-> ClePriorite(patients[i]) > ClePriorite(patients[j])])

\* line 77-78: key = priorite
TriPriorite(patients) ==
    TriStable(patients,
        [i, j \in 1..Len(patients) |-> ClePriorite(patients[i]) < ClePriorite(patients[j])])

\* fault: "first in, first out" read as the order of the list
TriFifo_OrdreListe(patients) == patients

\* line 82-83: key = patient_id
TriFifo(patients) ==
    TriStable(patients,
        [i, j \in 1..Len(patients) |-> InfLexical(CleId(patients[i]), CleId(patients[j]))])

\* fault: the secondary key is dropped
TriMixte_SansDuree(patients) ==
    TriStable(patients,
        [i, j \in 1..Len(patients) |-> ClePriorite(patients[i]) < ClePriorite(patients[j])])

\* line 87-89: key = (priorite, -patient_duree), tuples compared item by item
TriMixte(patients) ==
    TriStable(patients,
        [i, j \in 1..Len(patients) |->
            \/ ClePriorite(patients[i]) < ClePriorite(patients[j])
            \/ /\ ClePriorite(patients[i]) = ClePriorite(patients[j])
               /\ -CleDuree(patients[i]) < -CleDuree(patients[j])])

\* fault: an unknown rule leaves the group unsorted
TriParDefaut_SansTri(patients) == patients

\* line 91-95: any other rule name, "Par défaut : LPT"
TriParDefaut(patients) ==
    TriStable(patients,
        [i, j \in 1..Len(patients) |-> CleDuree(patients[i]) > CleDuree(patients[j])])

\* lines 69-95: the branch chain on regle_ordre
Tri(patients, regle) ==
    CASE regle = "duree_desc" -> TriDureeDesc(patients)
      [] regle = "priorite"   -> TriPriorite(patients)
      [] regle = "fifo"       -> TriFifo(patients)
      [] regle = "mixte"      -> TriMixte(patients)
      [] OTHER                -> TriParDefaut(patients)

---------------------------------------------------------------------------
(* Splitting and grouping, lines 47-60 *)

EstPlanifie(patient) == Get(patient, "statut", "") = Planifie

\* lines 48-50: the records whose statut is 'Planifié', in list order
Planifies(liste) == SelectSeq(liste, EstPlanifie)

NonPlanifies_Vide(liste) == <<>>

\* lines 51-52: the other records, in list order
NonPlanifies(liste) == SelectSeq(liste, LAMBDA p : ~EstPlanifie(p))

\* line 57: the key of a record's group
Cle(patient) == <<Get(patient, "salle_id", ""), Get(patient, "jour_numero", SansJour)>>

\* lines 55-60: the dict groupes, its keys in the order of their first record
Grouper(liste) ==
    LET premiers == SelectSeq([i \in 1..Len(liste) |-> i],
                        LAMBDA i : \A j \in 1..(i - 1) : Cle(liste[j]) # Cle(liste[i]))
    IN  [k \in 1..Len(premiers) |->
            [cle      |-> Cle(liste[premiers[k]]),
             patients |-> SelectSeq(liste,
                              LAMBDA p : Cle(p) = Cle(liste[premiers[k]]))]]

---------------------------------------------------------------------------
(* The placement of one patient, lines 100-126 *)

\* line 101
Duree(patient) == Get(patient, "patient_duree", 0)

\* fault: a slot ending exactly at the end of the window is refused
Tient_Strict(courante, duree, debut, cap) == courante + duree < debut + cap

\* fault: the test forgets the cursor and only compares with the window
Tient_SansCurseur(courante, duree, debut, cap) == duree <= cap

\* line 104: the patient fits between the cursor and the end of the window
Tient(courante, duree, debut, cap) == courante + duree <= debut + cap

\* lines 106-115: the record of a patient placed at the cursor
AvecCreneau(patient, courante) ==
    LET h_debut_patient == courante
        h_fin_patient   == courante + Duree(patient)
    IN  Put(Put(Put(Put(patient,
            "heure_debut", Formater(h_debut_patient)),
            "heure_fin", Formater(h_fin_patient)),
            "heure_debut_min", h_debut_patient),
            "heure_fin_min", h_fin_patient)

\* fault: the pause is forgotten
HeureSuivante_SansPause(h_fin_patient, p) == h_fin_patient

\* line 120: the cursor after a placed patient
HeureSuivante(h_fin_patient, p) == h_fin_patient + p

\* fault: the pause is charged for a patient that got no slot
CurseurApresHorsCreneau_AvecPause(courante, debut, p) == courante + p

\* fault: the cursor goes back to the start of the window
CurseurApresHorsCreneau_Debut(courante, debut, p) == debut

\* lines 121-126: the else branch does not assign heure_courante
CurseurApresHorsCreneau(courante, debut, p) == courante

\* fault: the overflowing patient is flagged but keeps no 'N/A' times
SansCreneau_SansNA(patient) == Put(patient, "statut", HorsCreneauStatut)

\* lines 123-125: the record of a patient that does not fit
SansCreneau(patient) ==
    Put(Put(Put(patient,
        "statut", HorsCreneauStatut),
        "heure_debut", NA),
        "heure_fin", NA)

\* fault: the unallocated records are flagged like the overflowing ones
SansHeure_HorsCreneau(patient) ==
    Put(Put(Put(patient,
        "statut", HorsCreneauStatut),
        "heure_debut", NA),
        "heure_fin", NA)

\* lines 130-131: the record of a patient the allocator did not place
SansHeure(patient) == Put(Put(patient, "heure_debut", NA), "heure_fin", NA)

---------------------------------------------------------------------------
(* The call *)

Init ==
    /\ planning_brut \in ListesBrutes
    /\ heure_debut \in HeuresDebut
    /\ heure_fin \in HeuresFin
    /\ pause \in Pauses
    /\ regle_ordre \in Regles
    /\ h_debut = 0
    /\ h_fin = 0
    /\ capacite = 0
    /\ planning_final = <<>>
    /\ patients_non_planifies = <<>>
    /\ groupes = <<>>
    /\ g = 1
    /\ patients_tries = <<>>
    /\ idx = 1
    /\ heure_courante = 0
    /\ pc = "debut"
    /\ st_patients = <<>>
    /\ st_salles = <<>>
    /\ st_chirurgiens = <<>>
    /\ st_jours = <<>>
    /\ st_compatibilite = <<>>
    /\ st_planning_final = <<>>
    /\ st_parametres_ordo = <<>>
    /\ sol_statut = "Not Solved"
    /\ sol_x = <<>>
    /\ sol_y = <<>>
    /\ planning_details = <<>>
    /\ pos_i = 1

\* lines 38-63: parse the window, split the list, group, reset planning_final
Preparer ==
    /\ pc = "debut"
    /\ h_debut' = EnMinutes(heure_debut)
    /\ h_fin' = EnMinutes(heure_fin)
    /\ capacite' = EnMinutes(heure_fin) - EnMinutes(heure_debut)
    /\ patients_non_planifies' = NonPlanifies(planning_brut)
    /\ groupes' = Grouper(Planifies(planning_brut))
    /\ planning_final' = <<>>
    /\ g' = 1
    /\ pc' = "boucle"
    /\ UNCHANGED <<args, patients_tries, idx, heure_courante>>
    /\ UNCHANGED <<session, optimisation>>

\* lines 66-98: enter the next group, sort it, put the cursor at the start
Trier ==
    /\ pc = "boucle"
    /\ g <= Len(groupes)
    /\ patients_tries' = Tri(groupes[g].patients, regle_ordre)
    /\ heure_courante' = h_debut
    /\ idx' = 1
    /\ pc' = "assigner"
    /\ UNCHANGED <<args, h_debut, h_fin, capacite, planning_final,
                   patients_non_planifies, groupes, g>>
    /\ UNCHANGED <<session, optimisation>>

\* line 100: the next patient of the group, or the next group
Avancer ==
    /\ idx' = idx + 1
    /\ IF idx = Len(patients_tries)
         THEN g' = g + 1 /\ pc' = "boucle"
         ELSE g' = g /\ pc' = "assigner"

\* lines 104-120: the patient fits
Placer ==
    /\ pc = "assigner"
    /\ idx <= Len(patients_tries)
    /\ Tient(heure_courante, Duree(patients_tries[idx]), h_debut, capacite)
    /\ planning_final' =
          Append(planning_final, AvecCreneau(patients_tries[idx], heure_courante))
    /\ heure_courante' =
          HeureSuivante(heure_courante + Duree(patients_tries[idx]), pause)
    /\ Avancer
    /\ UNCHANGED <<args, h_debut, h_fin, capacite, patients_non_planifies,
                   groupes, patients_tries>>
    /\ UNCHANGED <<session, optimisation>>

\* lines 121-126: the patient does not fit
HorsCreneau ==
    /\ pc = "assigner"
    /\ idx <= Len(patients_tries)
    /\ ~Tient(heure_courante, Duree(patients_tries[idx]), h_debut, capacite)
    /\ planning_final' = Append(planning_final, SansCreneau(patients_tries[idx]))
    /\ heure_courante' = CurseurApresHorsCreneau(heure_courante, h_debut, pause)
    /\ Avancer
    /\ UNCHANGED <<args, h_debut, h_fin, capacite, patients_non_planifies,
                   groupes, patients_tries>>
    /\ UNCHANGED <<session, optimisation>>

\* lines 128-134: append the records the allocator did not place, return
Terminer ==
    /\ pc = "boucle"
    /\ g > Len(groupes)
    /\ planning_final' =
          planning_final \o
          [i \in 1..Len(patients_non_planifies) |-> SansHeure(patients_non_planifies[i])]
    /\ pc' = "fini"
    /\ UNCHANGED <<args, h_debut, h_fin, capacite, patients_non_planifies,
                   groupes, g, patients_tries, idx, heure_courante>>
    /\ UNCHANGED <<session, optimisation>>

Next == Preparer \/ Trier \/ Placer \/ HorsCreneau \/ Terminer

Spec == Init /\ [][Next]_vars

---------------------------------------------------------------------------
(* Vocabulary of the properties *)

\* the formatted clock times of the scenarios
T(h1, h2, m1, m2) == <<h1, h2, ":", m1, m2>>

Id(r) == Get(r, "patient_id", "")

\* the position of a patient in the list the sequencer was given
PosBrut(id) == CHOOSE i \in 1..Len(planning_brut) : Id(planning_brut[i]) = id

\* the record was 'Planifié' in the input, so it went through a group
EtaitPlanifie(r) == EstPlanifie(planning_brut[PosBrut(Id(r))])

\* Scheduled: the record holds a slot
EstPlace(r) == EstPlanifie(r) /\ "heure_debut_min" \in DOMAIN r

\* OverflowNoSlot
EstHorsCreneau(r) == Get(r, "statut", "") = HorsCreneauStatut

Debut(r) == Get(r, "heure_debut_min", -1)

Fin(r) == Get(r, "heure_fin_min", -1)

\* the records of the groups in the output, two by two in output order
PairesDeGroupe(l) ==
    {ij \in (1..Len(l)) \X (1..Len(l)) :
        /\ ij[1] < ij[2]
        /\ EtaitPlanifie(l[ij[1]])
        /\ EtaitPlanifie(l[ij[2]])
        /\ Cle(planning_brut[PosBrut(Id(l[ij[1]]))]) =
           Cle(planning_brut[PosBrut(Id(l[ij[2]]))])}

\* the identifiers of the input, and the input record of an identifier
IdsBrut == {Id(planning_brut[i]) : i \in 1..Len(planning_brut)}

Brut(id) == planning_brut[PosBrut(id)]

\* every two records of one group come in an order that `avant' allows (a
\* set of pairs of identifiers), in the sorted list of the current group
\* and in the output
OrdreDeTraitement(avant) ==
    /\ \A ij \in PairesDeGroupe(planning_final) :
           <<Id(planning_final[ij[1]]), Id(planning_final[ij[2]])>> \in avant
    /\ \A i, j \in 1..Len(patients_tries) :
           i < j => <<Id(patients_tries[i]), Id(patients_tries[j])>> \in avant

\* descending duration, equal durations in input order
AvantDureeDesc ==
    {ab \in IdsBrut \X IdsBrut :
        \/ Brut(ab[1]).patient_duree > Brut(ab[2]).patient_duree
        \/ /\ Brut(ab[1]).patient_duree = Brut(ab[2]).patient_duree
           /\ PosBrut(ab[1]) < PosBrut(ab[2])}

\* ascending priority rank, equal ranks in input order
AvantPriorite ==
    {ab \in IdsBrut \X IdsBrut :
        \/ Brut(ab[1]).priorite < Brut(ab[2]).priorite
        \/ /\ Brut(ab[1]).priorite = Brut(ab[2]).priorite
           /\ PosBrut(ab[1]) < PosBrut(ab[2])}

\* ascending identifier
AvantFifo ==
    {ab \in IdsBrut \X IdsBrut :
        InfLexical(CaracteresDe(ab[1]), CaracteresDe(ab[2]))}

\* ascending priority rank, equal ranks by descending duration
AvantMixte ==
    {ab \in IdsBrut \X IdsBrut :
        \/ Brut(ab[1]).priorite < Brut(ab[2]).priorite
        \/ /\ Brut(ab[1]).priorite = Brut(ab[2]).priorite
           /\ Brut(ab[1]).patient_duree >= Brut(ab[2]).patient_duree}

\* the configuration is malformed: window end <= window start, or pause < 0
ConfigMalformee ==
    EnMinutes(heure_fin) <= EnMinutes(heure_debut) \/ pause < 0

\* the patient the loop of line 100 is about to handle
Courant == patients_tries[idx]

Dernier(l) == l[Len(l)]

---------------------------------------------------------------------------
(* Properties of the sequencer *)

\* C1: with a non-negative pause, in every (salle, jour) group of the output
\* the Scheduled slots do not overlap, and a slot placed after another one
\* starts no earlier than the end of that one plus the pause, whatever the
\* dispatching rule.
C1_SlotsSeparated ==
    pause >= 0 =>
        \A ij \in PairesDeGroupe(planning_final) :
            LET a == planning_final[ij[1]]
                b == planning_final[ij[2]]
            IN  (EstPlace(a) /\ EstPlace(b)) =>
                    /\ Debut(b) >= Fin(a) + pause
                    /\ Fin(a) <= Debut(b)
                    /\ Debut(a) < Fin(a)

\* the call has returned three slots of one group, separated by a pause of 15
C1_Witness ==
    /\ pc = "fini"
    /\ pause = 15
    /\ Len(planning_final) = 3
    /\ \A i \in 1..3 : EstPlace(planning_final[i])
    /\ Cardinality(PairesDeGroupe(planning_final)) = 3

\* C2: the cursor of a group starts at the window start; a patient taken in
\* sorted order with cursor + duration <= window end is marked Scheduled with
\* start = cursor and end = cursor + duration, and the cursor becomes
\* end + pause.
C2_CursorRule ==
    [][/\ (pc = "boucle" /\ pc' = "assigner") =>
              heure_courante' = EnMinutes(heure_debut)
       /\ (pc = "assigner" /\ heure_courante + Duree(Courant) <= EnMinutes(heure_fin)) =>
              /\ Len(planning_final') = Len(planning_final) + 1
              /\ Id(Dernier(planning_final')) = Id(Courant)
              /\ Get(Dernier(planning_final'), "statut", "") = Planifie
              /\ Debut(Dernier(planning_final')) = heure_courante
              /\ Fin(Dernier(planning_final')) = heure_courante + Duree(Courant)
              /\ heure_courante' = Fin(Dernier(planning_final')) + pause
      ]_vars

\* a second patient of a group has just been placed at the end of the first
\* one plus the pause, and it ends exactly at the end of the window
C2_Witness ==
    /\ Len(planning_final) = 2
    /\ EstPlace(planning_final[1])
    /\ EstPlace(planning_final[2])
    /\ Debut(planning_final[1]) = h_debut
    /\ Debut(planning_final[2]) = Fin(planning_final[1]) + pause
    /\ Fin(planning_final[2]) = h_fin
    /\ heure_courante = h_fin + pause

C4_MalformedRejected ==
    (planning_brut # <<>> /\ ConfigMalformee) => pc # "fini"

\* C5: under 'duree_desc' the patients of a group are processed in
\* descending duration, patients of equal duration in input order.
C5_DureeDescOrder ==
    regle_ordre = "duree_desc" => OrdreDeTraitement(AvantDureeDesc)

\* duree_desc: D and B have the same duration and D comes first in the list;
\* they were processed D then B, after the longer C which came last
C5_Witness ==
    /\ regle_ordre = "duree_desc"
    /\ pc = "fini"
    /\ Len(planning_brut) = 3
    /\ <<Id(planning_brut[1]), Id(planning_brut[2]), Id(planning_brut[3])>> =
           <<"D", "B", "C">>
    /\ <<Id(planning_final[1]), Id(planning_final[2]), Id(planning_final[3])>> =
           <<"C", "D", "B">>
    /\ Cardinality(PairesDeGroupe(planning_final)) = 3

\* C6: under 'priorite' the patients of a group are processed in ascending
\* priority rank, patients of equal rank in input order.
C6_PrioriteOrder ==
    regle_ordre = "priorite" => OrdreDeTraitement(AvantPriorite)

\* priorite: D and A have the same rank and D comes first in the list; they
\* were processed D then A, after B of rank 1 which came last
C6_Witness ==
    /\ regle_ordre = "priorite"
    /\ pc = "fini"
    /\ Len(planning_brut) = 3
    /\ <<Id(planning_brut[1]), Id(planning_brut[2]), Id(planning_brut[3])>> =
           <<"D", "A", "B">>
    /\ <<Id(planning_final[1]), Id(planning_final[2]), Id(planning_final[3])>> =
           <<"B", "D", "A">>
    /\ Cardinality(PairesDeGroupe(planning_final)) = 3

\* C7: under 'fifo' the patients of a group are processed in ascending
\* lexical order of patient identifier, whatever their duration, priority
\* and position in the list.
C7_FifoOrder ==
    regle_ordre = "fifo" => OrdreDeTraitement(AvantFifo)

\* fifo: the list C, A, B was processed A, B, C, which is neither the order
\* of the list nor an order of duration or of priority
C7_Witness ==
    /\ regle_ordre = "fifo"
    /\ pc = "fini"
    /\ Len(planning_brut) = 3
    /\ <<Id(planning_brut[1]), Id(planning_brut[2]), Id(planning_brut[3])>> =
           <<"C", "A", "B">>
    /\ <<Id(planning_final[1]), Id(planning_final[2]), Id(planning_final[3])>> =
           <<"A", "B", "C">>
    /\ Cardinality(PairesDeGroupe(planning_final)) = 3

\* C8: under 'mixte' the patients of a group are processed in ascending
\* priority rank, and patients of the same rank in descending duration.
C8_MixteOrder ==
    regle_ordre = "mixte" => OrdreDeTraitement(AvantMixte)

\* mixte: D and A have the same rank and D comes first in the list; the
\* longer A was processed before D, after B of rank 1
C8_Witness ==
    /\ regle_ordre = "mixte"
    /\ pc = "fini"
    /\ Len(planning_brut) = 3
    /\ <<Id(planning_brut[1]), Id(planning_brut[2]), Id(planning_brut[3])>> =
           <<"D", "A", "B">>
    /\ <<Id(planning_final[1]), Id(planning_final[2]), Id(planning_final[3])>> =
           <<"B", "A", "D">>
    /\ Cardinality(PairesDeGroupe(planning_final)) = 3

\* the group of a record of the output: the key it had in the input
GroupeDe(r) == Cle(planning_brut[PosBrut(Id(r))])

\* the records of r's group that precede position i of the output
AvantDansGroupe(i) ==
    SelectSeq(SubSeq(planning_final, 1, i - 1),
              LAMBDA r : EtaitPlanifie(r) /\ GroupeDe(r) = GroupeDe(planning_final[i]))

RECURSIVE SommeDurees(_)
SommeDurees(l) == IF l = <<>> THEN 0 ELSE Duree(l[1]) + SommeDurees(Tail(l))

\* no record of the group of position i is flagged as overflow
GroupeSansDebordement(i) ==
    \A j \in 1..Len(planning_final) :
        (EtaitPlanifie(planning_final[j])
           /\ GroupeDe(planning_final[j]) = GroupeDe(planning_final[i]))
        => ~EstHorsCreneau(planning_final[j])

\* A(180, 2), B(60, 1), C(120, 3) in one room and day, 08:00-18:00, pause 15
ScenarioABC ==
    /\ {Id(planning_brut[i]) : i \in 1..Len(planning_brut)} = {"A", "B", "C"}
    /\ \A i, j \in 1..Len(planning_brut) :
           /\ EstPlanifie(planning_brut[i])
           /\ Cle(planning_brut[i]) = Cle(planning_brut[j])
    /\ heure_debut = T("0", "8", "0", "0")
    /\ heure_fin = T("1", "8", "0", "0")
    /\ pause = 15

\* the timetable as the report shows it: identifier, start, end
Horaire(l) ==
    [i \in 1..Len(l) |->
        <<Id(l[i]), Get(l[i], "heure_debut", <<>>), Get(l[i], "heure_fin", <<>>)>>]

\* C9: when no patient of a group overflows, the n-th patient in the rule's
\* order starts at window start + the durations of the n-1 patients before
\* it + (n-1) pauses and ends at start + duration; in the scenario
\* duree_desc gives A 08:00-11:00, C 11:15-13:15, B 13:30-14:30 and priorite
\* gives B 08:00-09:00, A 09:15-12:15, C 12:30-14:30.
C9_StartTimes ==
    pc = "fini" =>
        /\ \A i \in 1..Len(planning_final) :
               (EtaitPlanifie(planning_final[i]) /\ GroupeSansDebordement(i)) =>
                   /\ EstPlace(planning_final[i])
                   /\ Debut(planning_final[i]) =
                          EnMinutes(heure_debut)
                          + SommeDurees(AvantDansGroupe(i))
                          + Len(AvantDansGroupe(i)) * pause
                   /\ Fin(planning_final[i]) =
                          Debut(planning_final[i]) + Duree(planning_final[i])
        /\ (ScenarioABC /\ regle_ordre = "duree_desc") =>
               Horaire(planning_final) =
                   << <<"A", T("0", "8", "0", "0"), T("1", "1", "0", "0")>>,
                      <<"C", T("1", "1", "1", "5"), T("1", "3", "1", "5")>>,
                      <<"B", T("1", "3", "3", "0"), T("1", "4", "3", "0")>> >>
        /\ (ScenarioABC /\ regle_ordre = "priorite") =>
               Horaire(planning_final) =
                   << <<"B", T("0", "8", "0", "0"), T("0", "9", "0", "0")>>,
                      <<"A", T("0", "9", "1", "5"), T("1", "2", "1", "5")>>,
                      <<"C", T("1", "2", "3", "0"), T("1", "4", "3", "0")>> >>

\* the scenario under 'priorite', given as the list A, B, C, has returned
C9_Witness ==
    /\ pc = "fini"
    /\ ScenarioABC
    /\ regle_ordre = "priorite"
    /\ <<Id(planning_brut[1]), Id(planning_brut[2]), Id(planning_brut[3])>> =
           <<"A", "B", "C">>
    /\ Id(planning_final[1]) = "B"
    /\ Debut(planning_final[3]) = 750

\* C10: a 'Planifié' patient that does not fit in the window at the current
\* cursor, in particular one longer than the window, is flagged
\* 'Non planifié (hors créneau)' with start and end 'N/A'; the call goes on:
\* the other patients are processed and every record is returned.
C10_OverflowFlagged ==
    /\ [][(pc = "assigner" /\ heure_courante + Duree(Courant) > EnMinutes(heure_fin)) =>
              /\ Len(planning_final') = Len(planning_final) + 1
              /\ Id(Dernier(planning_final')) = Id(Courant)
              /\ EstHorsCreneau(Dernier(planning_final'))
              /\ Get(Dernier(planning_final'), "heure_debut", <<>>) = NA
              /\ Get(Dernier(planning_final'), "heure_fin", <<>>) = NA
              /\ pc' \in {"assigner", "boucle"}
         ]_vars
    /\ [](\A i \in 1..Len(planning_final) :
             (/\ EtaitPlanifie(planning_final[i])
              /\ Duree(planning_final[i]) > EnMinutes(heure_fin) - EnMinutes(heure_debut))
             => /\ EstHorsCreneau(planning_final[i])
                /\ Get(planning_final[i], "heure_debut", <<>>) = NA
                /\ Get(planning_final[i], "heure_fin", <<>>) = NA)
    /\ [](pc = "assigner" => idx <= Len(patients_tries))
    /\ [](pc = "fini" =>
             {Id(planning_final[i]) : i \in 1..Len(planning_final)} =
             {Id(planning_brut[i]) : i \in 1..Len(planning_brut)})

\* window 08:00-09:00: A, longer than the window, was flagged with 'N/A'
\* times, B was then given the slot 08:00-09:00, and the call has returned
C10_Witness ==
    /\ pc = "fini"
    /\ heure_fin = T("0", "9", "0", "0")
    /\ Len(planning_final) = 2
    /\ Horaire(planning_final) =
           << <<"A", NA, NA>>,
              <<"B", T("0", "8", "0", "0"), T("0", "9", "0", "0")>> >>
    /\ EstHorsCreneau(planning_final[1])
    /\ EstPlace(planning_final[2])

\* the keys of the groups of the input
ClesBrut ==
    {Cle(planning_brut[i]) : i \in {k \in 1..Len(planning_brut) :
                                       EstPlanifie(planning_brut[k])}}

\* the input records of the group of key c
MembresBrut(c) ==
    SelectSeq(planning_brut, LAMBDA r : EstPlanifie(r) /\ Cle(r) = c)

\* the Scheduled records of the group of key c in the output
PlacesDuGroupe(c) ==
    SelectSeq(planning_final, LAMBDA r : EstPlace(r) /\ Cle(r) = c)

\* the length of the window
Fenetre == EnMinutes(heure_fin) - EnMinutes(heure_debut)

C12_SumWithinWindow ==
    ~ConfigMalformee =>
        \A c \in ClesBrut : SommeDurees(PlacesDuGroupe(c)) <= Fenetre

\* window 08:00-12:00, pause 0: three patients of one group are Scheduled
\* and their durations fill the window exactly
C12_Witness ==
    /\ pc = "fini"
    /\ ~ConfigMalformee
    /\ Fenetre = 240
    /\ \E c \in ClesBrut :
           /\ Len(PlacesDuGroupe(c)) = 3
           /\ SommeDurees(PlacesDuGroupe(c)) = 240

\* C13: every input record whose statut is not 'Planifié' comes out with its
\* statut, room, day, surgeon and other fields unchanged, with start and end
\* 'N/A' and no slot, after all the records of the groups, in input order.
C13_PassThrough ==
    pc = "fini" =>
        LET k  == Cardinality({i \in 1..Len(planning_brut) :
                                  EstPlanifie(planning_brut[i])})
            np == SelectSeq(planning_brut, LAMBDA r : r.statut # Planifie)
        IN  /\ Len(planning_final) = k + Len(np)
            /\ \A i \in 1..k : EtaitPlanifie(planning_final[i])
            /\ \A i \in 1..Len(np) :
                   LET r == planning_final[k + i]
                   IN  /\ DOMAIN r = DOMAIN np[i] \cup {"heure_debut", "heure_fin"}
                       /\ \A f \in DOMAIN np[i] : r[f] = np[i][f]
                       /\ r.heure_debut = NA
                       /\ r.heure_fin = NA

\* the list was unallocated B, allocated A, unallocated C: the call returned
\* A first, then B and C with their fields and 'N/A' times
C13_Witness ==
    /\ pc = "fini"
    /\ Len(planning_brut) = 3
    /\ <<Id(planning_brut[1]), Id(planning_brut[2]), Id(planning_brut[3])>> =
           <<"B", "A", "C">>
    /\ ~EstPlanifie(planning_brut[1])
    /\ EstPlanifie(planning_brut[2])
    /\ ~EstPlanifie(planning_brut[3])
    /\ EstPlace(planning_final[1])
    /\ Horaire(planning_final) =
           << <<"A", T("0", "8", "0", "0"), T("1", "1", "0", "0")>>,
              <<"B", NA, NA>>, <<"C", NA, NA>> >>
    /\ planning_final[2].statut = NonPlanifie
    /\ planning_final[3].statut = NonPlanifie

\* C14: when a patient overflows the cursor of the group is left unchanged
\* and the loop goes on down the sorted list, which is not sorted again; a
\* later patient is tested against that same cursor and Scheduled at it when
\* cursor + duration <= window end.
C14_CursorFrozen ==
    /\ [][(pc = "assigner" /\ heure_courante + Duree(Courant) > EnMinutes(heure_fin)) =>
              /\ heure_courante' = heure_courante
              /\ patients_tries' = patients_tries
              /\ idx' = idx + 1
              /\ (idx < Len(patients_tries) => (pc' = "assigner" /\ g' = g))
         ]_vars
    /\ [][(/\ pc = "assigner"
           /\ idx > 1
           /\ EstHorsCreneau(Dernier(planning_final))
           /\ heure_courante + Duree(Courant) <= EnMinutes(heure_fin)) =>
              /\ Id(Dernier(planning_final')) = Id(Courant)
              /\ EstPlace(Dernier(planning_final'))
              /\ Debut(Dernier(planning_final')) = heure_courante
         ]_vars

\* window 08:00-12:00, pause 0, duree_desc: A holds 08:00-11:00, C did not
\* fit at 11:00, and B was then Scheduled at that same 11:00
C14_Witness ==
    /\ regle_ordre = "duree_desc"
    /\ pause = 0
    /\ Len(planning_final) = 3
    /\ Horaire(planning_final) =
           << <<"A", T("0", "8", "0", "0"), T("1", "1", "0", "0")>>,
              <<"C", NA, NA>>,
              <<"B", T("1", "1", "0", "0"), T("1", "2", "0", "0")>> >>
    /\ EstHorsCreneau(planning_final[2])
    /\ Debut(planning_final[3]) = Fin(planning_final[1])
    /\ Cardinality(PairesDeGroupe(planning_final)) = 3

\* C15 as stated: once a patient of a group has overflowed, no patient that
\* follows it in the sorted order of the group is Scheduled.
C15_NoneAfterOverflow ==
    \A ij \in PairesDeGroupe(planning_final) :
        EstHorsCreneau(planning_final[ij[1]]) => ~EstPlace(planning_final[ij[2]])

\* C15 amended: with a non-negative pause, once a patient of a group has
\* overflowed, no later patient of the group that is at least as long as it is
\* Scheduled; a strictly shorter one may be.
C15_OnlyShorterAfterOverflow ==
    pause >= 0 =>
        \A ij \in PairesDeGroupe(planning_final) :
            (EstHorsCreneau(planning_final[ij[1]]) /\ EstPlace(planning_final[ij[2]]))
            => Duree(planning_final[ij[2]]) < Duree(planning_final[ij[1]])

\* window 08:00-09:00, priorite: A (180) overflowed at 08:00 and D (60),
\* after it in the order and shorter, was Scheduled
C15_Witness ==
    /\ pc = "fini"
    /\ pause >= 0
    /\ regle_ordre = "priorite"
    /\ Len(planning_final) = 2
    /\ <<Id(planning_final[1]), Id(planning_final[2])>> = <<"A", "D">>
    /\ EstHorsCreneau(planning_final[1])
    /\ EstPlace(planning_final[2])
    /\ Cardinality(PairesDeGroupe(planning_final)) = 1

---------------------------------------------------------------------------
(* The Optimisation page: the session state InitOptim draws *)

\* most patients in the registry drawn by InitOptim
MaxInscrits == 2

\* lines 277-285: a stored patient
Patient(id) ==
    [id |-> id, duree |-> Catalogue[id].duree, priorite |-> Catalogue[id].priorite]

\* the patients the registry may hold
Inscriptibles == {"A", "B", "C"}

\* the lists st.session_state.patients: not empty (line 484), and the form
\* refuses an identifier that is already stored (lines 272-274)
RegistresPatients ==
    {l \in UNION {[1..n -> {Patient(id) : id \in Inscriptibles}] : n \in 1..MaxInscrits} :
        \A p, q \in DOMAIN l : l[p].id = l[q].id => p = q}

\* the lists st.session_state.salles (lines 313-317; capacite in 240..1440)
RegistresSalles ==
    { << [id |-> "S1", capacite |-> 240] >>,
      << [id |-> "S1", capacite |-> 240], [id |-> "S2", capacite |-> 480] >> }

\* the lists st.session_state.chirurgiens (lines 349-355; disponibilite in
\* 240..600)
RegistresChirurgiens ==
    { << [id |-> "CH1", disponibilite |-> 240] >>,
      << [id |-> "CH1", disponibilite |-> 240],
         [id |-> "CH2", disponibilite |-> 360] >> }

\* nb_jours (line 449: 1..14)
NombresDeJours == {1, 2}

\* lines 452-461: the days generated for nb_jours
Jours(nb) == [d \in 1..nb |-> [numero |-> d]]

\* the dicts st.session_state.compatibilite: empty while the Compatibilité
\* page has not been opened; else it holds every pair of the patients and
\* surgeons stored when the page was last saved (lines 375-380, 412-418),
\* here the first patient and the first surgeons, each pair 0 or 1
Compatibilites(pats, chirs) ==
    {<<>>} \cup
    UNION {[{pats[1].id} \X {chirs[c].id : c \in 1..nc} -> {0, 1}] :
              nc \in 1..Len(chirs)}

---------------------------------------------------------------------------
(* The Optimisation page: data of the model (lines 537-559) *)

\* the set of the elements of a list
Ens(l) == {l[n] : n \in DOMAIN l}

\* next(e for e in l if e['id'] == id)
Premier(l, id) ==
    l[CHOOSE n \in DOMAIN l :
          l[n].id = id /\ \A q \in 1..(n - 1) : l[q].id # id]

\* line 537
I == [n \in DOMAIN st_patients |-> st_patients[n].id]

\* line 538
J == [n \in DOMAIN st_salles |-> st_salles[n].id]

\* line 539
S == [n \in DOMAIN st_chirurgiens |-> st_chirurgiens[n].id]

\* line 540
K == [n \in DOMAIN st_jours |-> st_jours[n].numero]

\* line 543: t, the dict comprehension keeps the last patient of an id
Durees ==
    [i \in Ens(I) |->
        st_patients[CHOOSE n \in DOMAIN st_patients :
                        /\ st_patients[n].id = i
                        /\ \A q \in DOMAIN st_patients :
                               st_patients[q].id = i => q <= n].duree]

\* lines 546-547: b
Capacites == [c \in Ens(J) \X Ens(K) |-> Premier(st_salles, c[1]).capacite]

\* lines 550-551: a
Disponibilites ==
    [c \in Ens(S) \X Ens(K) |-> Premier(st_chirurgiens, c[1]).disponibilite]

\* lines 554-559: m, a pair without an entry is compatible
MatriceCompat == [c \in Ens(I) \X Ens(S) |-> Get(st_compatibilite, c, 1)]

---------------------------------------------------------------------------
(* The Optimisation page: the MILP (lines 562-596) *)

\* cat='Binary'
Binaire == {0, 1}

\* line 565: the keys of x
Xvars == Ens(I) \X Ens(J) \X Ens(K)

\* line 566: the keys of y
Yvars == Ens(I) \X Ens(J) \X Ens(S) \X Ens(K)

\* pulp.lpSum of the values of f
RECURSIVE Somme(_)
Somme(f) ==
    IF DOMAIN f = {} THEN 0
    ELSE LET d == CHOOSE e \in DOMAIN f : TRUE
         IN  f[d] + Somme([e \in DOMAIN f \ {d} |-> f[e]])

ContrainteOnce_Exactement(vx) ==
    \A i \in Ens(I) :
        Somme([c \in Ens(J) \X Ens(K) |-> vx[<<i, c[1], c[2]>>]]) = 1

ContrainteOnce_Deux(vx) ==
    \A i \in Ens(I) :
        Somme([c \in Ens(J) \X Ens(K) |-> vx[<<i, c[1], c[2]>>]]) <= 2

\* lines 575-576: Once_i
ContrainteOnce(vx) ==
    \A i \in Ens(I) :
        Somme([c \in Ens(J) \X Ens(K) |-> vx[<<i, c[1], c[2]>>]]) <= 1

ContrainteORcap_Absente(vx) == TRUE

\* lines 578-580: ORcap_j_k
ContrainteORcap(vx) ==
    \A j \in Ens(J), k \in Ens(K) :
        Somme([i \in Ens(I) |-> Durees[i] * vx[<<i, j, k>>]]) <= Capacites[<<j, k>>]

ContrainteSurgeonCap_Absente(vy) == TRUE

\* lines 582-584: SurgeonCap_s_k
ContrainteSurgeonCap(vy) ==
    \A s \in Ens(S), k \in Ens(K) :
        Somme([c \in Ens(I) \X Ens(J) |-> Durees[c[1]] * vy[<<c[1], c[2], s, k>>]])
            <= Disponibilites[<<s, k>>]

ContrainteCompat_ToutPermis(vy) == \A v \in Yvars : vy[v] <= 1

\* lines 587-591: Compat_i_j_s_k
ContrainteCompat(vy) ==
    \A v \in Yvars : vy[v] <= Get(MatriceCompat, <<v[1], v[3]>>, 0)

ContrainteLienEn_Absente(vx, vy, i, j, k) == TRUE

\* lines 593-596: Link_x_y_i_j_k, for one (i, j, k)
ContrainteLienEn(vx, vy, i, j, k) ==
    Somme([s \in Ens(S) |-> vy[<<i, j, s, k>>]]) = vx[<<i, j, k>>]

\* lines 593-596: the loop over (i, j, k)
ContrainteLien(vx, vy) ==
    \A c \in Xvars : ContrainteLienEn(vx, vy, c[1], c[2], c[3])

\* the values of y where exactly the variables of ys are 1
Valeurs(ys) == [v \in Yvars |-> IF v \in ys THEN 1 ELSE 0]

\* the y variables that can be 1 next to vx: the others are 0 in every
\* solution, by their own Compat constraint or by the Link constraint of
\* their (i, j, k)
Libres(vx) ==
    {v \in Yvars : /\ ContrainteCompat(Valeurs({v}))
                   /\ ContrainteLienEn(vx, Valeurs({v}), v[1], v[2], v[4])}

---------------------------------------------------------------------------
(* The Optimisation page: decoding (lines 605-646) *)

\* pulp.value(...) > 0.5
Positif(v) == 2 * v > 1

\* the (j, k) in the order of the loops of lines 609-610
CasesJK ==
    [p \in 1..(Len(J) * Len(K)) |->
        <<J[((p - 1) \div Len(K)) + 1], K[((p - 1) % Len(K)) + 1]>>]

\* the (j, k) of patient i for which line 611 holds
Trouvees(i) == SelectSeq(CasesJK, LAMBDA c : Positif(sol_x[<<i, c[1], c[2]>>]))

\* line 613
Surgeons(i, j, k) == SelectSeq(S, LAMBDA s : Positif(sol_y[<<i, j, s, k>>]))

\* ', '.join(l)
RECURSIVE Joindre(_)
Joindre(l) ==
    IF l = <<>> THEN ""
    ELSE IF Len(l) = 1 THEN l[1]
    ELSE l[1] \o ", " \o Joindre(Tail(l))

\* lines 620-631: the record of a placed patient (names and dates left out)
EnregistrementPlanifie(i, j, k) ==
    [patient_id    |-> i,
     patient_duree |-> Premier(st_patients, i).duree,
     priorite      |-> Get(Premier(st_patients, i), "priorite", 3),
     salle_id      |-> j,
     jour_numero   |-> k,
     chirurgiens   |-> Joindre(Surgeons(i, j, k)),
     statut        |-> Planifie]

\* lines 635-646: the record of a patient that is not placed
EnregistrementNonPlanifie(i) ==
    [patient_id    |-> i,
     patient_duree |-> Premier(st_patients, i).duree,
     priorite      |-> Get(Premier(st_patients, i), "priorite", 3),
     salle_id      |-> "",
     jour_numero   |-> SansJour,
     chirurgiens   |-> "",
     statut        |-> NonPlanifie]

---------------------------------------------------------------------------
(* The Optimisation page: one press of the button *)

\* the variables of the sequencer
sequenceur == <<args, h_debut, h_fin, capacite, planning_final,
                patients_non_planifies, groupes, g, patients_tries, idx,
                heure_courante>>

\* the page is open on a registry, the widgets at their defaults (lines
\* 505-514), the button not pressed yet
InitOptim ==
    /\ st_patients \in RegistresPatients
    /\ st_salles \in RegistresSalles
    /\ st_chirurgiens \in RegistresChirurgiens
    /\ st_jours \in {Jours(nb) : nb \in NombresDeJours}
    /\ st_compatibilite \in Compatibilites(st_patients, st_chirurgiens)
    /\ st_planning_final = <<>>
    /\ st_parametres_ordo = <<>>
    /\ sol_statut = "Not Solved"
    /\ sol_x = <<>>
    /\ sol_y = <<>>
    /\ planning_details = <<>>
    /\ pos_i = 1
    /\ pc = "optimisation"
    /\ planning_brut = <<>>
    /\ heure_debut = <<"0", "8", ":", "0", "0">>
    /\ heure_fin = <<"1", "8", ":", "0", "0">>
    /\ pause = 15
    /\ regle_ordre = "duree_desc"
    /\ h_debut = 0
    /\ h_fin = 0
    /\ capacite = 0
    /\ planning_final = <<>>
    /\ patients_non_planifies = <<>>
    /\ groupes = <<>>
    /\ g = 1
    /\ patients_tries = <<>>
    /\ idx = 1
    /\ heure_courante = 0

\* lines 484-495 and 537-605: with the prerequisites met, build the model and
\* solve it; the solver returns values of x and y that satisfy every
\* constraint
Resoudre ==
    /\ pc = "optimisation"
    /\ st_patients # <<>>
    /\ st_salles # <<>>
    /\ st_chirurgiens # <<>>
    /\ st_jours # <<>>
    /\ \E vx \in [Xvars -> Binaire] :
           /\ ContrainteOnce(vx)
           /\ ContrainteORcap(vx)
           /\ \E ys \in SUBSET Libres(vx) :
                  /\ ContrainteSurgeonCap(Valeurs(ys))
                  /\ ContrainteCompat(Valeurs(ys))
                  /\ ContrainteLien(vx, Valeurs(ys))
                  /\ sol_x' = vx
                  /\ sol_y' = Valeurs(ys)
    /\ sol_statut' = "Optimal"
    /\ planning_details' = <<>>
    /\ pos_i' = 1
    /\ pc' = "decodage"
    /\ UNCHANGED <<session, sequenceur>>

\* line 611: pulp.value(x[i][j][k]) is None while the variable has no value,
\* and None > 0.5 raises TypeError
SansValeurs(i) ==
    \E c \in Ens(J) \X Ens(K) : <<i, c[1], c[2]>> \notin DOMAIN sol_x

\* line 607: the next patient of I, or the end of the loop
AvancerDecodage ==
    /\ pos_i' = pos_i + 1
    /\ pc' = IF pos_i = Len(I) THEN "decode" ELSE "decodage"

\* lines 608-631: the patient has x > 0.5 somewhere: one record for each
\* (j, k) found
DecoderPlace ==
    /\ pc = "decodage"
    /\ pos_i <= Len(I)
    /\ ~SansValeurs(I[pos_i])
    /\ Trouvees(I[pos_i]) # <<>>
    /\ planning_details' =
           planning_details \o
           [n \in 1..Len(Trouvees(I[pos_i])) |->
               EnregistrementPlanifie(I[pos_i], Trouvees(I[pos_i])[n][1],
                                      Trouvees(I[pos_i])[n][2])]
    /\ AvancerDecodage
    /\ UNCHANGED <<session, sequenceur, sol_statut, sol_x, sol_y>>

\* lines 633-646: the patient has no x > 0.5
DecoderNonPlace ==
    /\ pc = "decodage"
    /\ pos_i <= Len(I)
    /\ ~SansValeurs(I[pos_i])
    /\ Trouvees(I[pos_i]) = <<>>
    /\ planning_details' =
           Append(planning_details, EnregistrementNonPlanifie(I[pos_i]))
    /\ AvancerDecodage
    /\ UNCHANGED <<session, sequenceur, sol_statut, sol_x, sol_y>>

NextOptim == Resoudre \/ DecoderPlace \/ DecoderNonPlace

SpecOptim == InitOptim /\ [][NextOptim]_vars

---------------------------------------------------------------------------
(* Vocabulary of the properties of the Optimisation page *)

\* the positions of the records of patient id in planning_details
RecordsDe(id) ==
    {q \in DOMAIN planning_details : Get(planning_details[q], "patient_id", "") = id}

\* the Allocated records
Alloues == SelectSeq(planning_details, EstPlanifie)

\* the Allocated records of room j on day k
AllouesEn(j, k) ==
    SelectSeq(planning_details,
              LAMBDA r : EstPlanifie(r) /\ Cle(r) = <<j, k>>)

\* the surgeons named by the chirurgiens string of record r
ChirurgiensDe(r) ==
    {s \in Ens(S) :
        \E E \in SUBSET Ens(S) :
            /\ s \in E
            /\ Joindre(SelectSeq(S, LAMBDA e : e \in E)) = Get(r, "chirurgiens", "")}

\* the Allocated records of day k whose surgeon set contains s
AllouesA(s, k) ==
    SelectSeq(planning_details,
              LAMBDA r : /\ EstPlanifie(r)
                         /\ Get(r, "jour_numero", SansJour) = k
                         /\ s \in ChirurgiensDe(r))

\* the stored room and the stored surgeon of an identifier
SalleDe(j) == CHOOSE e \in Ens(st_salles) : e.id = j

ChirurgienDe(s) == CHOOSE e \in Ens(st_chirurgiens) : e.id = s

\* the registry of the scenario: patients A then B, rooms S1 and S2,
\* surgeons CH1 and CH2, one day
RegistreAB ==
    /\ I = <<"A", "B">>
    /\ J = <<"S1", "S2">>
    /\ S = <<"CH1", "CH2">>
    /\ K = <<1>>

\* C16: for every solution of the model, decoding produces exactly one
\* record per patient of the registry, none missing and none twice: either
\* Allocated with one room and one day of the registry, or Unallocated with
\* empty room and day.
C16_OneRecordPerPatient ==
    /\ \A n \in DOMAIN st_patients :
           Cardinality(RecordsDe(st_patients[n].id)) = IF n < pos_i THEN 1 ELSE 0
    /\ pc = "decode" => Len(planning_details) = Len(st_patients)
    /\ \A q \in DOMAIN planning_details :
           LET r == planning_details[q]
           IN  /\ Get(r, "patient_id", "") \in Ens(I)
               /\ \/ /\ Get(r, "statut", "") = Planifie
                     /\ Get(r, "salle_id", "") \in Ens(J)
                     /\ Get(r, "jour_numero", SansJour) \in Ens(K)
                     /\ Positif(sol_x[<<r.patient_id, r.salle_id, r.jour_numero>>])
                  \/ /\ Get(r, "statut", "") = NonPlanifie
                     /\ Get(r, "salle_id", "S1") = ""
                     /\ Get(r, "jour_numero", 1) = SansJour
                     /\ \A c \in Ens(J) \X Ens(K) :
                            ~Positif(sol_x[<<r.patient_id, c[1], c[2]>>])

\* one room, one surgeon, one day: A is Allocated to S1 on day 1 and C, which
\* no longer fits the room, is Unallocated: two records for two patients
C16_Witness ==
    /\ pc = "decode"
    /\ I = <<"A", "C">>
    /\ J = <<"S1">>
    /\ S = <<"CH1">>
    /\ K = <<1>>
    /\ Len(planning_details) = 2
    /\ planning_details[1].patient_id = "A"
    /\ planning_details[1].statut = Planifie
    /\ Cle(planning_details[1]) = <<"S1", 1>>
    /\ planning_details[2].patient_id = "C"
    /\ planning_details[2].statut = NonPlanifie
    /\ Cle(planning_details[2]) = <<"", SansJour>>

\* C17: for every room and day, the durations of the patients allocated to
\* that room on that day sum to at most the capacity of the room.
C17_RoomCapacity ==
    \A j \in Ens(J), k \in Ens(K) :
        SommeDurees(AllouesEn(j, k)) <= SalleDe(j).capacite

\* A (180) and B (60) are both allocated to S1 on day 1 and fill its 240
\* minutes
C17_Witness ==
    /\ pc = "decode"
    /\ RegistreAB
    /\ Len(AllouesEn("S1", 1)) = 2
    /\ SommeDurees(AllouesEn("S1", 1)) = 240
    /\ SalleDe("S1").capacite = 240

\* C18: for every surgeon and day, the durations of the patients whose
\* decoded surgeon set contains the surgeon on that day, over all rooms, sum
\* to at most the availability of the surgeon.
C18_SurgeonAvailability ==
    \A s \in Ens(S), k \in Ens(K) :
        SommeDurees(AllouesA(s, k)) <= ChirurgienDe(s).disponibilite

\* CH1 operates A in S1 and B in S2 on day 1: 240 minutes, its availability
C18_Witness ==
    /\ pc = "decode"
    /\ RegistreAB
    /\ Len(AllouesA("CH1", 1)) = 2
    /\ Cle(AllouesA("CH1", 1)[1]) = <<"S1", 1>>
    /\ Cle(AllouesA("CH1", 1)[2]) = <<"S2", 1>>
    /\ SommeDurees(AllouesA("CH1", 1)) = 240
    /\ ChirurgienDe("CH1").disponibilite = 240

\* C19: every surgeon in the decoded surgeon set of an Allocated patient is
\* compatible with the patient: the pair has no entry in the compatibility
\* map (it counts as 1) or its entry is 1; a pair stored as 0 is never
\* assigned.
C19_OnlyCompatible ==
    \A q \in DOMAIN planning_details :
        EstPlanifie(planning_details[q]) =>
            \A s \in ChirurgiensDe(planning_details[q]) :
                Get(st_compatibilite, <<Id(planning_details[q]), s>>, 1) = 1

\* (A, CH1) is stored as 0 and (A, CH2) has no entry: A is allocated with
\* CH2
C19_Witness ==
    /\ pc = "decode"
    /\ DOMAIN st_compatibilite = {<<"A", "CH1">>}
    /\ st_compatibilite[<<"A", "CH1">>] = 0
    /\ Len(planning_details) >= 1
    /\ planning_details[1].patient_id = "A"
    /\ planning_details[1].statut = Planifie
    /\ planning_details[1].chirurgiens = "CH2"

\* C20: a patient placed in (room, day) has exactly one surgeon, in the
\* solution and in its decoded surgeon set, and a patient that is not placed
\* has no surgeon and takes no surgeon time on any day.
C20_ExactlyOneSurgeon ==
    /\ pc \in {"decodage", "decode"} =>
           \A c \in Xvars :
               Cardinality({s \in Ens(S) : Positif(sol_y[<<c[1], c[2], s, c[3]>>])})
                   = IF Positif(sol_x[c]) THEN 1 ELSE 0
    /\ \A q \in DOMAIN planning_details :
           LET r == planning_details[q]
           IN  IF EstPlanifie(r)
                 THEN /\ Get(r, "chirurgiens", "") \in Ens(S)
                      /\ Cardinality(ChirurgiensDe(r)) = 1
                 ELSE /\ Get(r, "chirurgiens", "CH1") = ""
                      /\ \A v \in Yvars : v[1] = Id(r) => sol_y[v] = 0
    /\ \A s \in Ens(S), k \in Ens(K) :
           pc = "decode" =>
               SommeDurees(AllouesA(s, k)) =
                   Somme([c \in Ens(I) \X Ens(J) |->
                             Durees[c[1]] * sol_y[<<c[1], c[2], s, k>>]])

\* one room, two surgeons: A is placed with CH2 alone and C, which no longer
\* fits the room, is not placed
C20_Witness ==
    /\ pc = "decode"
    /\ I = <<"A", "C">>
    /\ J = <<"S1">>
    /\ S = <<"CH1", "CH2">>
    /\ K = <<1>>
    /\ Len(planning_details) = 2
    /\ planning_details[1].statut = Planifie
    /\ planning_details[1].chirurgiens = "CH2"
    /\ planning_details[2].statut = NonPlanifie
    /\ planning_details[2].chirurgiens = ""

\* what surgeon s has left on day k once the Allocated patients other than
\* id are counted
ResteSans(s, k, id) ==
    ChirurgienDe(s).disponibilite -
    SommeDurees(SelectSeq(AllouesA(s, k), LAMBDA r : Id(r) # id))

\* what room j has left on day k
ResteSalle(j, k) == SalleDe(j).capacite - SommeDurees(AllouesEn(j, k))

\* C21: a patient that is stored as incompatible with every surgeon who has
\* enough remaining availability on a day (in particular with the only
\* surgeon) is Unallocated, also when a room has enough free capacity.
C21_IncompatibleUnallocated ==
    pc = "decode" =>
        \A n \in DOMAIN st_patients :
            LET p == st_patients[n]
            IN  (\A s \in Ens(S), k \in Ens(K) :
                     \/ Get(st_compatibilite, <<p.id, s>>, 1) = 0
                     \/ ResteSans(s, k, p.id) < p.duree)
                => \A q \in RecordsDe(p.id) :
                       /\ ~EstPlanifie(planning_details[q])
                       /\ Get(planning_details[q], "statut", "") = NonPlanifie

\* A is stored as incompatible with CH1, the only surgeon; B is Allocated and
\* A is Unallocated although S1 still has the 180 minutes A needs
C21_Witness ==
    /\ pc = "decode"
    /\ I = <<"A", "B">>
    /\ S = <<"CH1">>
    /\ K = <<1>>
    /\ Get(st_compatibilite, <<"A", "CH1">>, 1) = 0
    /\ Len(planning_details) = 2
    /\ planning_details[1].patient_id = "A"
    /\ planning_details[1].statut = NonPlanifie
    /\ planning_details[2].statut = Planifie
    /\ Cle(planning_details[2]) = <<"S1", 1>>
    /\ ResteSalle("S1", 1) >= 180

\* the assignment that places nobody
ZeroX == [c \in Xvars |-> 0]

\* C22: whatever the number of patients, with non-negative capacities and
\* availabilities the assignment with every x and y at 0 satisfies every
\* constraint of the model: excess patients never make it infeasible.
C22_ZeroFeasible ==
    /\ ContrainteOnce(ZeroX)
    /\ ContrainteORcap(ZeroX)
    /\ ContrainteSurgeonCap(Valeurs({}))
    /\ ContrainteCompat(Valeurs({}))
    /\ ContrainteLien(ZeroX, Valeurs({}))

\* A and C (300 minutes) for one room of 240 minutes on one day: the solver
\* may return the assignment that places nobody
C22_Witness ==
    /\ pc = "decodage"
    /\ Ens(I) = {"A", "C"}
    /\ J = <<"S1">>
    /\ K = <<1>>
    /\ Durees["A"] + Durees["C"] > Capacites[<<"S1", 1>>]
    /\ sol_x = ZeroX
    /\ sol_y = Valeurs({})

---------------------------------------------------------------------------
(* States before anything has run *)

\* lines 149-162: the session state of a new session
SessionInitiale ==
    /\ st_patients = <<>>
    /\ st_salles = <<>>
    /\ st_chirurgiens = <<>>
    /\ st_jours = <<>>
    /\ st_compatibilite = <<>>
    /\ st_planning_final = <<>>
    /\ st_parametres_ordo = <<>>

\* the button of the Optimisation page has not been pressed
OptimisationInitiale ==
    /\ sol_statut = "Not Solved"
    /\ sol_x = <<>>
    /\ sol_y = <<>>
    /\ planning_details = <<>>
    /\ pos_i = 1

\* the sequencer has not been called
SequenceurInitial ==
    /\ planning_brut = <<>>
    /\ h_debut = 0
    /\ h_fin = 0
    /\ capacite = 0
    /\ planning_final = <<>>
    /\ patients_non_planifies = <<>>
    /\ groupes = <<>>
    /\ g = 1
    /\ patients_tries = <<>>
    /\ idx = 1
    /\ heure_courante = 0

\* the widgets of lines 505-514 at their defaults
WidgetsParDefaut ==
    /\ heure_debut = <<"0", "8", ":", "0", "0">>
    /\ heure_fin = <<"1", "8", ":", "0", "0">>
    /\ pause = 15
    /\ regle_ordre = "duree_desc"

---------------------------------------------------------------------------
(* Formatting and parsing of times (lines 39-40 and 110-111) *)

\* the minutes of a day
Minutes == 0..1439

\* a cursor value is about to be formatted
InitHeure ==
    /\ heure_courante \in Minutes
    /\ pc = "formater"
    /\ planning_brut = <<>>
    /\ h_debut = 0
    /\ h_fin = 0
    /\ capacite = 0
    /\ planning_final = <<>>
    /\ patients_non_planifies = <<>>
    /\ groupes = <<>>
    /\ g = 1
    /\ patients_tries = <<>>
    /\ idx = 1
    /\ WidgetsParDefaut
    /\ SessionInitiale
    /\ OptimisationInitiale

\* line 110: the "HH:MM" string of the cursor
FormaterHeure ==
    /\ pc = "formater"
    /\ heure_debut' = Formater(heure_courante)
    /\ pc' = "analyser"
    /\ UNCHANGED <<planning_brut, heure_fin, pause, regle_ordre, h_debut, h_fin,
                   capacite, planning_final, patients_non_planifies, groupes, g,
                   patients_tries, idx, heure_courante, session, optimisation>>

\* line 39: the minutes of an "HH:MM" string
AnalyserHeure ==
    /\ pc = "analyser"
    /\ h_debut' = EnMinutes(heure_debut)
    /\ pc' = "analyse"
    /\ UNCHANGED <<args, h_fin, capacite, planning_final, patients_non_planifies,
                   groupes, g, patients_tries, idx, heure_courante, session,
                   optimisation>>

NextHeure == FormaterHeure \/ AnalyserHeure

SpecHeure == InitHeure /\ [][NextHeure]_vars

\* C25: a time of 0..1439 minutes is formatted as zero-padded 24-hour "HH:MM"
\* and parsing is the inverse of formatting: parse(format(m)) = m, with
\* format(510) = "08:30" and parse("08:30") = 510.
C25_RoundTrip ==
    /\ pc \in {"analyser", "analyse"} =>
           /\ Len(heure_debut) = 5
           /\ heure_debut[3] = ":"
           /\ \A p \in {1, 2, 4, 5} : \E c \in 1..10 : Chiffres[c] = heure_debut[p]
           /\ IntDe(SubSeq(heure_debut, 1, 2)) = heure_courante \div 60
           /\ IntDe(SubSeq(heure_debut, 1, 2)) <= 23
           /\ IntDe(SubSeq(heure_debut, 4, 5)) = heure_courante % 60
           /\ (heure_courante = 510 <=> heure_debut = T("0", "8", "3", "0"))
    /\ pc = "analyse" =>
           /\ h_debut = heure_courante
           /\ (heure_debut = T("0", "8", "3", "0") => h_debut = 510)

\* 510 was formatted as "08:30" and "08:30" parsed back to 510
C25_Witness ==
    /\ pc = "analyse"
    /\ heure_courante = 510
    /\ heure_debut = T("0", "8", "3", "0")
    /\ h_debut = 510

---------------------------------------------------------------------------
(* The registry pages: the forms of lines 255-357 *)

\* most rooms and most surgeons the registry holds in the model
MaxSalles == 2

MaxChirurgiens == 2

\* what the forms may submit: an identifier, possibly empty, and a value
IdsPatientsSaisis == Inscriptibles \cup {""}

SallesSaisies ==
    {[id |-> i, capacite |-> c] : i \in {"", "S1", "S2"}, c \in {240, 480}}

ChirurgiensSaisis ==
    {[id |-> i, disponibilite |-> d] : i \in {"", "CH1", "CH2"}, d \in {240, 360}}

IdExiste_Jamais(l, id) == FALSE

\* lines 272-273, 309-310, 345-346: id in ids_existants
IdExiste(l, id) == \E n \in DOMAIN l : l[n].id = id

\* a new session on the registry pages
InitRegistre ==
    /\ SessionInitiale
    /\ OptimisationInitiale
    /\ SequenceurInitial
    /\ WidgetsParDefaut
    /\ pc = "registre"

\* the registry pages are open: pc holds what the last submit showed
SurRegistre == pc \in {"registre", "ajoute", "refuse"}

\* lines 269-285: submit of form_patient; rempli: nom and prenom are filled
AjouterPatient ==
    /\ SurRegistre
    /\ \E id \in IdsPatientsSaisis, rempli \in BOOLEAN :
           IF id # "" /\ rempli
             THEN IF IdExiste(st_patients, id)
                    THEN /\ pc' = "refuse"
                         /\ UNCHANGED st_patients
                    ELSE /\ Len(st_patients) < MaxInscrits
                         /\ st_patients' = Append(st_patients, Patient(id))
                         /\ pc' = "ajoute"
             ELSE /\ pc' = "registre"
                  /\ UNCHANGED st_patients
    /\ UNCHANGED <<st_salles, st_chirurgiens, st_jours, st_compatibilite,
                   st_planning_final, st_parametres_ordo, optimisation, sequenceur>>

\* lines 306-319: submit of form_salle (nom_salle is filled)
AjouterSalle ==
    /\ SurRegistre
    /\ \E salle \in SallesSaisies :
           IF salle.id # ""
             THEN IF IdExiste(st_salles, salle.id)
                    THEN /\ pc' = "refuse"
                         /\ UNCHANGED st_salles
                    ELSE /\ Len(st_salles) < MaxSalles
                         /\ st_salles' = Append(st_salles, salle)
                         /\ pc' = "ajoute"
             ELSE /\ pc' = "registre"
                  /\ UNCHANGED st_salles
    /\ UNCHANGED <<st_patients, st_chirurgiens, st_jours, st_compatibilite,
                   st_planning_final, st_parametres_ordo, optimisation, sequenceur>>

\* lines 342-357: submit of form_chir (nom and prenom are filled)
AjouterChirurgien ==
    /\ SurRegistre
    /\ \E chir \in ChirurgiensSaisis :
           IF chir.id # ""
             THEN IF IdExiste(st_chirurgiens, chir.id)
                    THEN /\ pc' = "refuse"
                         /\ UNCHANGED st_chirurgiens
                    ELSE /\ Len(st_chirurgiens) < MaxChirurgiens
                         /\ st_chirurgiens' = Append(st_chirurgiens, chir)
                         /\ pc' = "ajoute"
             ELSE /\ pc' = "registre"
                  /\ UNCHANGED st_chirurgiens
    /\ UNCHANGED <<st_patients, st_salles, st_jours, st_compatibilite,
                   st_planning_final, st_parametres_ordo, optimisation, sequenceur>>

NextRegistre == AjouterPatient \/ AjouterSalle \/ AjouterChirurgien

SpecRegistre == InitRegistre /\ [][NextRegistre]_vars

\* the identifiers of a list are pairwise distinct
IdsDistincts(l) == \A p, q \in DOMAIN l : l[p].id = l[q].id => p = q

\* C26: after any sequence of adds the identifiers of the stored patients are
\* pairwise distinct, and so are those of the rooms and of the surgeons; an
\* add that reuses a stored identifier is refused and leaves the lists
\* unchanged.
C26_DistinctIds ==
    /\ [](/\ IdsDistincts(st_patients)
          /\ IdsDistincts(st_salles)
          /\ IdsDistincts(st_chirurgiens))
    /\ [][pc' = "refuse" =>
              UNCHANGED <<st_patients, st_salles, st_chirurgiens>>]_vars
    /\ [][/\ st_patients' # st_patients =>
              /\ Len(st_patients') = Len(st_patients) + 1
              /\ SubSeq(st_patients', 1, Len(st_patients)) = st_patients
              /\ ~IdExiste(st_patients, st_patients'[Len(st_patients')].id)
          /\ st_salles' # st_salles =>
              /\ Len(st_salles') = Len(st_salles) + 1
              /\ SubSeq(st_salles', 1, Len(st_salles)) = st_salles
              /\ ~IdExiste(st_salles, st_salles'[Len(st_salles')].id)
          /\ st_chirurgiens' # st_chirurgiens =>
              /\ Len(st_chirurgiens') = Len(st_chirurgiens) + 1
              /\ SubSeq(st_chirurgiens', 1, Len(st_chirurgiens)) = st_chirurgiens
              /\ ~IdExiste(st_chirurgiens, st_chirurgiens'[Len(st_chirurgiens')].id)
         ]_vars

\* two patients, two rooms and two surgeons are stored and the last submit,
\* which reused an identifier, was refused
C26_Witness ==
    /\ pc = "refuse"
    /\ Len(st_patients) = 2
    /\ Len(st_salles) = 2
    /\ Len(st_chirurgiens) = 2
    /\ IdsDistincts(st_patients)
    /\ IdsDistincts(st_salles)
    /\ IdsDistincts(st_chirurgiens)

---------------------------------------------------------------------------
(* Further properties of the sequencer *)

\* C27 as stated: every Scheduled slot lies inside the configured window and
\* has the length of the patient: window start <= start, end <= window end,
\* end - start = duration.
C27_SlotInsideWindow ==
    \A i \in DOMAIN planning_final :
        EstPlace(planning_final[i]) =>
            /\ EnMinutes(heure_debut) <= Debut(planning_final[i])
            /\ Fin(planning_final[i]) <= EnMinutes(heure_fin)
            /\ Fin(planning_final[i]) - Debut(planning_final[i])
                   = Duree(planning_final[i])

\* the record is Unallocated
EstNonAlloue(r) == Get(r, "statut", "") = NonPlanifie

\* how many of the three states the record is in
NombreEtats(r) ==
    (IF EstPlace(r) THEN 1 ELSE 0) + (IF EstHorsCreneau(r) THEN 1 ELSE 0)
    + (IF EstNonAlloue(r) THEN 1 ELSE 0)

\* the fields the allocator wrote
ChampsAlloues == {"patient_id", "patient_duree", "priorite", "salle_id",
                  "jour_numero", "chirurgiens"}

\* C28: the sequencer conserves records: the returned list holds each input
\* record exactly once (same patient and allocation, none dropped, none
\* twice), and each returned record is in exactly one of the states
\* Scheduled, overflow, not allocated.
C28_RecordsConserved ==
    /\ \A i, j \in DOMAIN planning_final :
           Id(planning_final[i]) = Id(planning_final[j]) => i = j
    /\ \A i \in DOMAIN planning_final :
           /\ Id(planning_final[i]) \in IdsBrut
           /\ \A f \in ChampsAlloues :
                  Get(planning_final[i], f, "?") = Brut(Id(planning_final[i]))[f]
           /\ NombreEtats(planning_final[i]) = 1
    /\ pc = "fini" =>
           /\ Len(planning_final) = Len(planning_brut)
           /\ \A id \in IdsBrut :
                  Cardinality({i \in DOMAIN planning_final :
                                  Id(planning_final[i]) = id}) = 1

\* three records went in, one of each kind came out: A Scheduled, C overflow,
\* B not allocated
C28_Witness ==
    /\ pc = "fini"
    /\ Len(planning_brut) = 3
    /\ Len(planning_final) = 3
    /\ \E i, j, k \in 1..3 :
           /\ EstPlace(planning_final[i])
           /\ EstHorsCreneau(planning_final[j])
           /\ EstNonAlloue(planning_final[k])
           /\ {i, j, k} = 1..3

---------------------------------------------------------------------------
(* The Optimisation page: the whole press of the button (lines 526-681) *)

\* line 508: the values heure_fin is set to
HeuresFinPage == {<<"1", "2", ":", "0", "0">>, <<"1", "8", ":", "0", "0">>}

\* line 514: the values pause is set to (the widget offers 0..60)
PausesPage == {0, 15}

\* lines 515-523: the label regle[1] of the rule regle[0]
Libelle(r) ==
    CASE r = "duree_desc" -> "LPT - Duree decroissante"
      [] r = "priorite"   -> "Priorite clinique"
      [] r = "fifo"       -> "FIFO - Premier arrive"
      [] r = "mixte"      -> "Hybride (priorite puis duree)"

\* the page is open on a registry with one day and no compatibility saved,
\* the widgets set, the button not pressed yet
InitPage ==
    /\ st_patients \in RegistresPatients
    /\ st_salles \in RegistresSalles
    /\ st_chirurgiens \in RegistresChirurgiens
    /\ st_jours = Jours(1)
    /\ st_compatibilite = <<>>
    /\ st_planning_final = <<>>
    /\ st_parametres_ordo = <<>>
    /\ OptimisationInitiale
    /\ SequenceurInitial
    /\ heure_debut = <<"0", "8", ":", "0", "0">>
    /\ heure_fin \in HeuresFinPage
    /\ pause \in PausesPage
    /\ regle_ordre \in ReglesConnues
    /\ pc = "optimisation"

\* lines 651-657: the call of the sequencer on the decoded list, with the
\* values of the widgets
Appeler ==
    /\ pc = "decode"
    /\ planning_brut' = planning_details
    /\ pc' = "debut"
    /\ UNCHANGED <<heure_debut, heure_fin, pause, regle_ordre, h_debut, h_fin,
                   capacite, planning_final, patients_non_planifies, groupes,
                   g, patients_tries, idx, heure_courante>>
    /\ UNCHANGED <<session, optimisation>>

\* line 668: pulp.value(prob.objective), the number of x at 1
Objectif == Cardinality({c \in DOMAIN sol_x : sol_x[c] = 1})

\* lines 662-676: the report and the parameters are stored, and st.rerun()
\* starts the script again: the locals of the handler are gone
Stocker ==
    /\ pc = "fini"
    /\ st_planning_final' = planning_final
    /\ st_parametres_ordo' =
           [regle                  |-> Libelle(regle_ordre),
            heure_debut            |-> heure_debut,
            heure_fin              |-> heure_fin,
            pause                  |-> pause,
            modele_statut          |-> sol_statut,
            modele_objectif        |-> Objectif,
            compatibilite_utilisee |-> TRUE]
    /\ sol_statut' = "Not Solved"
    /\ sol_x' = <<>>
    /\ sol_y' = <<>>
    /\ planning_details' = <<>>
    /\ pos_i' = 1
    /\ planning_brut' = <<>>
    /\ h_debut' = 0
    /\ h_fin' = 0
    /\ capacite' = 0
    /\ planning_final' = <<>>
    /\ patients_non_planifies' = <<>>
    /\ groupes' = <<>>
    /\ g' = 1
    /\ patients_tries' = <<>>
    /\ idx' = 1
    /\ heure_courante' = 0
    /\ pc' = "stocke"
    /\ UNCHANGED <<heure_debut, heure_fin, pause, regle_ordre>>
    /\ UNCHANGED <<st_patients, st_salles, st_chirurgiens, st_jours,
                   st_compatibilite>>

NextPage ==
    \/ Resoudre \/ DecoderPlace \/ DecoderNonPlace \/ Appeler
    \/ Preparer \/ Trier \/ Placer \/ HorsCreneau \/ Terminer
    \/ Stocker

SpecPage == InitPage /\ [][NextPage]_vars

---------------------------------------------------------------------------
(* Properties of the final timetable *)

\* two records share a surgeon on the same day
MemeChirurgienMemeJour(r1, r2) ==
    /\ Get(r1, "jour_numero", SansJour) = Get(r2, "jour_numero", SansJour)
    /\ ChirurgiensDe(r1) \cap ChirurgiensDe(r2) # {}

\* the slots of two records do not overlap
SansChevauchement(r1, r2) == Fin(r1) <= Debut(r2) \/ Fin(r2) <= Debut(r1)

\* C29: in the final timetable no surgeon is double-booked: for every
\* surgeon and day, any two Scheduled slots whose surgeon set contains that
\* surgeon, slots in different rooms included, have non-overlapping time
\* intervals.
C29_NoSurgeonDoubleBooked ==
    \A p, q \in DOMAIN planning_final :
        ( /\ p < q
          /\ EstPlace(planning_final[p])
          /\ EstPlace(planning_final[q])
          /\ MemeChirurgienMemeJour(planning_final[p], planning_final[q]) )
        => SansChevauchement(planning_final[p], planning_final[q])

\* every room's capacity per day is at most the length of the window
SallesDansFenetre == \A n \in DOMAIN st_salles : st_salles[n].capacite <= Fenetre

\* the record of the final timetable for identifier id has a slot
AUnCreneau(id) ==
    \E n \in DOMAIN planning_final :
        Id(planning_final[n]) = id /\ EstPlace(planning_final[n])

\* C30: when the pause is 0 and every room's capacity per day is at most the
\* window length, the sequencer marks no Allocated patient as overflow,
\* whatever the rule: once the sequencer has returned, every patient the
\* optimizer allocated has a slot.
C30_NoOverflowWhenRoomsFit ==
    (pause = 0 /\ SallesDansFenetre) =>
        /\ \A n \in DOMAIN planning_final : ~EstHorsCreneau(planning_final[n])
        /\ pc = "fini" =>
               \A n \in DOMAIN planning_details :
                   EstPlanifie(planning_details[n])
                       => AUnCreneau(Id(planning_details[n]))

\* the sequencer has returned a timetable in which two allocated patients
\* fill the only room, whose capacity is the whole window, without a pause
C30_Witness ==
    /\ pc = "fini"
    /\ pause = 0
    /\ SallesDansFenetre
    /\ Len(st_salles) = 1
    /\ st_salles[1].capacite = Fenetre
    /\ Len(planning_final) = 2
    /\ \A n \in DOMAIN planning_final : EstPlace(planning_final[n])
    /\ \E n \in DOMAIN planning_final : Fin(planning_final[n]) = h_fin

---------------------------------------------------------------------------
(* Runs of the button one after the other, the registry growing in between *)

\* pulp.LpStatus of a solve that ended without a solution
StatutsSansSolution == {"Not Solved", "Undefined"}

\* a session with one room, one surgeon and one day, no patient yet; the
\* window set to 08:00-12:00, the pause 15
InitRuns ==
    /\ st_patients = <<>>
    /\ st_salles = << [id |-> "S1", capacite |-> 240] >>
    /\ st_chirurgiens = << [id |-> "CH1", disponibilite |-> 240] >>
    /\ st_jours = Jours(1)
    /\ st_compatibilite = <<>>
    /\ st_planning_final = <<>>
    /\ st_parametres_ordo = <<>>
    /\ OptimisationInitiale
    /\ SequenceurInitial
    /\ heure_debut = <<"0", "8", ":", "0", "0">>
    /\ heure_fin = <<"1", "2", ":", "0", "0">>
    /\ pause = 15
    /\ regle_ordre = "duree_desc"
    /\ pc = "registre"

\* lines 170-181: another page is chosen in the sidebar; the script runs
\* again from the top, with the session state and the widgets kept
Naviguer ==
    /\ pc \in {"registre", "ajoute", "refuse", "optimisation", "stocke", "erreur"}
    /\ pc' \in {"registre", "optimisation"}
    /\ pc' # pc
    /\ sol_statut' = "Not Solved"
    /\ sol_x' = <<>>
    /\ sol_y' = <<>>
    /\ planning_details' = <<>>
    /\ pos_i' = 1
    /\ UNCHANGED <<session, sequenceur>>

\* lines 599-605: the solve ends without a solution; the variables keep no
\* value and prob.status is not Optimal
ResoudreSansSolution ==
    /\ pc = "optimisation"
    /\ st_patients # <<>>
    /\ st_salles # <<>>
    /\ st_chirurgiens # <<>>
    /\ st_jours # <<>>
    /\ sol_statut' \in StatutsSansSolution
    /\ sol_x' = <<>>
    /\ sol_y' = <<>>
    /\ planning_details' = <<>>
    /\ pos_i' = 1
    /\ pc' = "decodage"
    /\ UNCHANGED <<session, sequenceur>>

\* lines 611 and 679-681: the comparison raises, the handler shows the error;
\* nothing is stored
DecoderErreur ==
    /\ pc = "decodage"
    /\ pos_i <= Len(I)
    /\ SansValeurs(I[pos_i])
    /\ pc' = "erreur"
    /\ UNCHANGED <<session, sequenceur, optimisation>>

NextRuns ==
    \/ AjouterPatient \/ Naviguer
    \/ Resoudre \/ ResoudreSansSolution
    \/ DecoderPlace \/ DecoderNonPlace \/ DecoderErreur
    \/ Appeler
    \/ Preparer \/ Trier \/ Placer \/ HorsCreneau \/ Terminer
    \/ Stocker

SpecRuns == InitRuns /\ [][NextRuns]_vars

\* the solve of the run in progress ended without values
SolveurSansValeurs == pc \in {"decodage", "decode", "erreur"} /\ sol_x = <<>>

\* l holds exactly one record for each identifier of ids, and nothing else
UnParPatient(l, ids) ==
    /\ Len(l) = Len(ids)
    /\ \A n \in DOMAIN ids :
           Cardinality({q \in DOMAIN l : Id(l[q]) = ids[n]}) = 1

\* C23: when the solve ends without a usable solution (the variables carry
\* no values), the run does not raise: it goes on to a report with one
\* record per patient, every patient Unallocated, stored with the solver
\* status.
C23_FailureStillReports ==
    /\ SolveurSansValeurs => pc # "erreur"
    /\ (pc = "stocke" /\ st_parametres_ordo.modele_statut \in StatutsSansSolution)
           => /\ UnParPatient(st_planning_final, I)
              /\ \A n \in DOMAIN st_planning_final :
                     EstNonAlloue(st_planning_final[n])

\* C24: when a run has just ended, the stored report is the output of that
\* run: exactly one record for each patient the registry held during the
\* run, whatever earlier runs stored.
C24_ReportOfLastRun ==
    pc \in {"stocke", "erreur"} => UnParPatient(st_planning_final, I)

=============================================================================
